---- MODULE Spec2Model ----
(***************************************************************************)
(* Model of semper-fi/app/adapters.py: the two adapter classes SimAdapter  *)
(* and MilitaryOSINTAdapter, the objects a client creates from them and    *)
(* the operations a client can apply to such an object (construction,      *)
(* attribute read, poll()).  Python's object model is kept as far as the   *)
(* file relies on it: an instance has its own attribute dictionary, a      *)
(* class has a method table and class-level attributes, attribute lookup   *)
(* goes instance first and class second, a missing attribute is an         *)
(* AttributeError and a wrong number of arguments a TypeError.             *)
(***************************************************************************)
EXTENDS Naturals, Sequences, FiniteSets

VARIABLES heap, cattrs, published, last, ctorArg, afterInit, polls

vars == <<heap, cattrs, published, last, ctorArg, afterInit, polls>>

-----------------------------------------------------------------------------
(* Bounds of the model *)

MaxObjs == 3
MaxPolls == 2

Ids == 1..MaxObjs

-----------------------------------------------------------------------------
(* Python values.  A configuration is opaque to the code; the model keeps   *)
(* the null value, an empty value and two distinct non-empty values.        *)

None == "None"
EmptyCfg == "{}"
Configs == {None, EmptyCfg, "cfgA", "cfgB"}

Falsy(v) == v \in {None, EmptyCfg}

BoundMethod == "<bound method>"
NoExc == "-"
NoClass == "-"

ArgLists == {<<>>} \cup {<<c>> : c \in Configs}

EmptyDict == [n \in {} |-> None]

SetAttr(d, name, v) ==
    [n \in (DOMAIN d) \cup {name} |-> IF n = name THEN v ELSE d[n]]

Ret(st, v) == [st |-> st, outcome |-> "return", value |-> v, exc |-> NoExc]
Raise(st, e) == [st |-> st, outcome |-> "raise", value |-> None, exc |-> e]

-----------------------------------------------------------------------------
(* The classes of adapters.py *)

Classes == {"SimAdapter", "MilitaryOSINTAdapter"}

SimAdapter_withPoll == {"poll"}

\* class SimAdapter: pass
SimAdapter_methods == {}

\* class MilitaryOSINTAdapter: def __init__(self, config), def poll(self)
MilitaryOSINTAdapter_methods == {"__init__", "poll"}

Methods(cls) ==
    IF cls = "SimAdapter" THEN SimAdapter_methods
    ELSE IF cls = "MilitaryOSINTAdapter" THEN MilitaryOSINTAdapter_methods
    ELSE {}

\* number of parameters of a method besides self
Params(name) == IF name = "__init__" THEN 1 ELSE 0

\* mutant: the configuration is replaced by a default when it is empty or null
Init_defaulting(st, self, config) ==
    Ret([st EXCEPT !.heap[self].dict =
            SetAttr(@, "config", IF Falsy(config) THEN "cfgA" ELSE config)],
        None)

\* mutant: the configuration is kept on the class, shared by the instances
Init_classLevel(st, self, config) ==
    Ret([st EXCEPT !.cattrs[st.heap[self].cls] = SetAttr(@, "config", config)],
        None)

\* def __init__(self, config): self.config = config
MilitaryOSINTAdapter__init__(st, self, config) ==
    Ret([st EXCEPT !.heap[self].dict = SetAttr(@, "config", config)], None)

\* mutant: the stub reports that it is not implemented
Poll_raising(st, self) == Raise(st, "NotImplementedError")

\* mutant: the stub publishes an update
Poll_publishing(st, self) ==
    Ret([st EXCEPT !.published = Append(@, self)], None)

\* mutant: the stub returns the list of updates
Poll_returning(st, self) == Ret(st, "[]")

\* mutant: the stub records on the adapter that it has polled
Poll_marking(st, self) ==
    Ret([st EXCEPT !.heap[self].dict = SetAttr(@, "polled", "True")], None)

\* def poll(self): pass
MilitaryOSINTAdapter_poll(st, self) == Ret(st, None)

-----------------------------------------------------------------------------
(* Python's object model *)

State == [heap |-> heap, cattrs |-> cattrs, published |-> published]

\* obj.name: the instance dictionary, then the class
GetAttr(st, obj, name) ==
    LET o == st.heap[obj] IN
    IF name \in DOMAIN o.dict THEN Ret(st, o.dict[name])
    ELSE IF name \in DOMAIN st.cattrs[o.cls] THEN Ret(st, st.cattrs[o.cls][name])
    ELSE IF name \in Methods(o.cls) THEN Ret(st, BoundMethod)
    ELSE Raise(st, "AttributeError")

\* cls(*args): a new object, then __init__ when the class defines one;
\* a class without __init__ takes no argument
New(st, cls, self, args) ==
    LET st1 == [st EXCEPT !.heap[self] = [cls |-> cls, dict |-> EmptyDict]] IN
    IF "__init__" \in Methods(cls)
    THEN IF Len(args) # Params("__init__") THEN Raise(st, "TypeError")
         ELSE LET r == MilitaryOSINTAdapter__init__(st1, self, args[1]) IN
              IF r.outcome = "return" THEN r ELSE Raise(st, r.exc)
    ELSE IF Len(args) # 0 THEN Raise(st, "TypeError")
         ELSE Ret(st1, None)

\* obj.poll(*args)
Invoke(st, obj, args) ==
    LET m == GetAttr(st, obj, "poll") IN
    IF m.outcome = "raise" THEN m
    ELSE IF m.value # BoundMethod THEN Raise(st, "TypeError")
    ELSE IF Len(args) # Params("poll") THEN Raise(st, "TypeError")
    ELSE MilitaryOSINTAdapter_poll(st, obj)

-----------------------------------------------------------------------------
(* The state machine *)

Allocated(i) == heap[i].cls # NoClass

Free == {i \in Ids : ~Allocated(i)}

NextId == CHOOSE i \in Free : \A j \in Free : i <= j

Init ==
    /\ heap = [i \in Ids |-> [cls |-> NoClass, dict |-> EmptyDict]]
    /\ cattrs = [c \in Classes \cup {NoClass} |-> EmptyDict]
    /\ published = <<>>
    /\ last = [op |-> "none", cls |-> NoClass, obj |-> 0, args |-> <<>>,
               outcome |-> "return", value |-> None, exc |-> NoExc]
    /\ ctorArg = [i \in Ids |-> None]
    /\ afterInit = [i \in Ids |-> [cls |-> NoClass, dict |-> EmptyDict]]
    /\ polls = [i \in Ids |-> 0]

\* what the client observes of its latest operation
Outcome(op, cls, obj, args, r) ==
    [op |-> op, cls |-> cls, obj |-> obj, args |-> args,
     outcome |-> r.outcome, value |-> r.value, exc |-> r.exc]

\* a client evaluates cls(*args)
Construct(cls, args) ==
    /\ Free # {}
    /\ LET self == NextId
           r == New(State, cls, self, args) IN
       /\ heap' = r.st.heap
       /\ cattrs' = r.st.cattrs
       /\ published' = r.st.published
       /\ last' = Outcome("init", cls, self, args, r)
       /\ IF r.outcome = "return"
          THEN /\ ctorArg' = [ctorArg EXCEPT ![self] =
                                 IF Len(args) > 0 THEN args[1] ELSE None]
               /\ afterInit' = [afterInit EXCEPT ![self] = r.st.heap[self]]
          ELSE UNCHANGED <<ctorArg, afterInit>>
       /\ UNCHANGED polls

\* a client evaluates obj.poll(*args)
Poll(obj, args) ==
    /\ Allocated(obj)
    /\ polls[obj] < MaxPolls
    /\ LET r == Invoke(State, obj, args) IN
       /\ heap' = r.st.heap
       /\ cattrs' = r.st.cattrs
       /\ published' = r.st.published
       /\ last' = Outcome("poll", heap[obj].cls, obj, args, r)
       /\ polls' = [polls EXCEPT ![obj] =
                       IF Len(args) = 0 /\ heap[obj].cls = "MilitaryOSINTAdapter"
                       THEN @ + 1 ELSE @]
       /\ UNCHANGED <<ctorArg, afterInit>>

\* a client evaluates obj.config
ReadConfig(obj) ==
    /\ Allocated(obj)
    /\ LET r == GetAttr(State, obj, "config") IN
       /\ last' = Outcome("config", heap[obj].cls, obj, <<>>, r)
       /\ UNCHANGED <<heap, cattrs, published, ctorArg, afterInit, polls>>

Next ==
    \/ \E cls \in Classes, args \in ArgLists : Construct(cls, args)
    \/ \E obj \in Ids, args \in ArgLists : Poll(obj, args)
    \/ \E obj \in Ids : ReadConfig(obj)

Spec == Init /\ [][Next]_vars

-----------------------------------------------------------------------------
(* Properties *)

Mil(i) == heap[i].cls = "MilitaryOSINTAdapter"
Sim(i) == heap[i].cls = "SimAdapter"

\* what a client reads as obj.config in state st: outcome and value
Field(st, obj) ==
    LET r == GetAttr(st, obj, "config") IN <<r.outcome, r.value, r.exc>>

PollOf(cls) == last.op = "poll" /\ last.cls = cls
InitOf(cls) == last.op = "init" /\ last.cls = cls

\* C1: MilitaryOSINTAdapter(c) returns normally for every configuration c,
\* the null and the empty one included, and right after it the new adapter's
\* config field is exactly c and is the only attribute the adapter holds.
C1_ConstructionStoresConfig ==
    (InitOf("MilitaryOSINTAdapter") /\ Len(last.args) = 1) =>
        /\ last.outcome = "return"
        /\ Mil(last.obj)
        /\ heap[last.obj].dict = [n \in {"config"} |-> last.args[1]]
        /\ Field(State, last.obj) = <<"return", last.args[1], NoExc>>

C1_Witness ==
    /\ InitOf("MilitaryOSINTAdapter")
    /\ last.args = <<EmptyCfg>>
    /\ last.outcome = "return"
    /\ \E i \in Ids : Mil(i) /\ ctorArg[i] = None /\ i # last.obj

\* C2: every invocation of poll() on a MilitaryOSINTAdapter, whatever its
\* configuration and however often it was polled before, returns normally:
\* its outcome is never an exception.
C2_PollReturnsNormally ==
    (PollOf("MilitaryOSINTAdapter") /\ last.args = <<>>) =>
        last.outcome = "return" /\ last.exc = NoExc

C2_Witness ==
    /\ PollOf("MilitaryOSINTAdapter")
    /\ last.args = <<>>
    /\ last.outcome = "return"
    /\ polls[last.obj] = MaxPolls
    /\ ctorArg[last.obj] = None

\* C3: poll() has no side effect: a poll() of a MilitaryOSINTAdapter leaves
\* every object, every class-level attribute and the list of published
\* updates as they were, and after any number of polls the adapter's config
\* field is still the value it was constructed with and nothing is published.
C3_PollStep ==
    (last'.op = "poll" /\ last'.cls = "MilitaryOSINTAdapter" /\ last'.args = <<>>)
        => State' = State

C3_AfterPolls ==
    \A i \in Ids : (Mil(i) /\ polls[i] > 0) =>
        /\ Field(State, i) = <<"return", ctorArg[i], NoExc>>
        /\ published = <<>>

C3_PollNoSideEffect == [][C3_PollStep]_vars /\ []C3_AfterPolls

C3_Witness ==
    \E i \in Ids :
        /\ Mil(i)
        /\ polls[i] = MaxPolls
        /\ ctorArg[i] = "cfgB"
        /\ last.op = "config" /\ last.obj = i

\* C4: poll() takes no argument besides the adapter (a call with one is a
\* TypeError) and the result of poll() is None, whatever the configuration
\* and however many polls went before.
C4_PollResultNone ==
    PollOf("MilitaryOSINTAdapter") =>
        /\ last.args = <<>> => (last.outcome = "return" /\ last.value = None)
        /\ last.args # <<>> => (last.outcome = "raise" /\ last.exc = "TypeError")

C4_Witness ==
    /\ PollOf("MilitaryOSINTAdapter")
    /\ last.args = <<>>
    /\ last.value = None
    /\ polls[last.obj] = MaxPolls
    /\ ctorArg[last.obj] = "cfgA"

\* C5: an adapter has one state: in every reachable state each object is as
\* it was right after its construction, and no class-level attribute exists.
C5_SingleState ==
    /\ \A i \in Ids : Allocated(i) => heap[i] = afterInit[i]
    /\ \A c \in Classes : cattrs[c] = EmptyDict

C5_Witness ==
    /\ \A i \in Ids : Allocated(i)
    /\ \E i \in Ids : Mil(i) /\ polls[i] = MaxPolls /\ ctorArg[i] = EmptyCfg
    /\ last.op = "poll"

\* C6: instances are independent: a construction, a poll or a read that
\* acts on one object leaves every other MilitaryOSINTAdapter, and the
\* config field a client reads from it, unchanged.
C6_Step ==
    \A i \in Ids : (Mil(i) /\ last'.obj # i) =>
        /\ heap'[i] = heap[i]
        /\ Field(State', i) = Field(State, i)

C6_InstancesIndependent == [][C6_Step]_vars

C6_Witness ==
    \E i, j \in Ids :
        /\ i # j /\ Mil(i) /\ Mil(j)
        /\ ctorArg[i] = "cfgA" /\ ctorArg[j] = "cfgB"
        /\ polls[i] > 0 /\ polls[j] > 0
        /\ last.op = "init" /\ last.outcome = "return" /\ last.obj \notin {i, j}

\* C7: SimAdapter is empty: it is constructed only without arguments, its
\* instances hold no attribute, reading config from one is an
\* AttributeError, and poll() on one ends in an AttributeError, not a no-op.
C7_SimAdapterEmpty ==
    /\ \A i \in Ids : Sim(i) =>
        /\ heap[i].dict = EmptyDict
        /\ Field(State, i) = <<"raise", None, "AttributeError">>
        /\ GetAttr(State, i, "poll").outcome = "raise"
    /\ PollOf("SimAdapter") =>
        (last.outcome = "raise" /\ last.exc = "AttributeError")
    /\ InitOf("SimAdapter") =>
        /\ last.args = <<>> => (last.outcome = "return" /\ Sim(last.obj))
        /\ last.args # <<>> =>
            (last.outcome = "raise" /\ last.exc = "TypeError" /\ ~Allocated(last.obj))

C7_Witness ==
    /\ PollOf("SimAdapter")
    /\ last.args = <<>>
    /\ last.outcome = "raise"
    /\ \E i \in Ids : Mil(i) /\ polls[i] > 0

====
